---- MODULE Spec2Model ----
(***************************************************************************)
(* Model of the victron-gx MQTT client (src/src/lib.rs and the entity      *)
(* modules ac.rs, battery.rs, ess.rs, pvinverter.rs).                      *)
(*                                                                         *)
(* A topic is the sequence of its '/'-separated segments, so that          *)
(* "N/S1/battery/512/Soc" is <<"N","S1","battery","512","Soc">>.  An       *)
(* Option<f64> is a sequence of length at most one: None is <<>> and       *)
(* Some(v) is <<v>>.  Numbers are integers.                                *)
(***************************************************************************)
EXTENDS Integers, Sequences, FiniteSets, TLC

VARIABLES
    serial_number,  \* VictronGx.serial_number
    data,           \* the VictronData behind Arc<RwLock<..>>
    ev_pc,          \* position of the event loop task
    publish,        \* the Publish packet the event loop took last
    ev_notified,    \* the event loop's current Notified future was woken
    ka_pc,          \* position of the keepalive task
    ka_notified,    \* the keepalive task's current Notified future was woken
    n_events,       \* transport events consumed by the event loop
    n_ticks,        \* interval ticks taken by the keepalive task
    n_shutdowns,    \* calls of shutdown()
    ev_polled,      \* the event loop left its select! since the first shutdown()
    ka_polled,      \* the keepalive task left its select! since the first shutdown()
    ret,            \* value returned by the last read accessor call
    sent,           \* the last outbound publish handed to the MQTT client
    cmd_ret,        \* outcome of the last command operation
    stream,         \* the publish packets the transport has delivered, in order
    n_errors,       \* transport errors the event loop has gone through
    ka_result,      \* result of the keepalive task's last publish
    permits,        \* free permits of the semaphore behind the RwLock
    waiters,        \* tasks queued on the semaphore, oldest first
    rd_pc           \* position of each accessor caller

vars == <<serial_number, data, ev_pc, publish, ev_notified, ka_pc, ka_notified,
          n_events, n_ticks, n_shutdowns, ev_polled, ka_polled, ret, sent, cmd_ret,
          stream, n_errors, ka_result, permits, waiters,
          rd_pc>>

----------------------------------------------------------------------------
(* Bounds of the model *)

\* publish packets the transport delivers in the dispatch specification
MaxFrames == 2
\* publish packets the transport delivers in the summary specification
MaxSummaryFrames == 3
\* transport events (publish, other, error) in the lifecycle specification
MaxEvents == 3
\* interval ticks of the keepalive task
MaxTicks == 2
\* calls of shutdown()
MaxShutdowns == 2
\* publish packets the transport delivers in the ordering specification
MaxStream == 3
\* concurrent callers of read accessors
MaxReaders == 2
\* transport events, interval ticks and shutdown() calls in the service specification
MaxServiceInputs == 2
\* publish packets the transport delivers in the lock specification
MaxLockFrames == 2
\* publish packets the transport delivers in the progress specification
MaxFairFrames == 1

----------------------------------------------------------------------------
(* Option<f64> *)

None == <<>>
Some(v) == <<v>>

----------------------------------------------------------------------------
(* Entity records and their frame handlers *)

AcSpecDefault == [voltage |-> None, power |-> None, frequency |-> None]

EssDefault == [grid_setpoint |-> None]

BatteryDCDefault ==
    [dc_power |-> None, dc_current |-> None, dc_voltage |-> None,
     cell_min_voltage |-> None, cell_max_voltage |-> None,
     temperature |-> None, soc |-> None, soh |-> None]

PvInverterDefault == [power |-> None, max_power |-> None, total_energy |-> None]

VictronDataDefault ==
    [ac_input |-> AcSpecDefault, ac_output |-> AcSpecDefault, ess |-> EssDefault,
     batteries_dc |-> <<>>, pv_inverters |-> <<>>]

\* a slip in the table: the P pattern assigns the voltage
AcSpec_handle_frame_swapped(self, parts, value) ==
    CASE parts = <<"L1", "V">> -> [self EXCEPT !.voltage = value]
      [] parts = <<"L1", "P">> -> [self EXCEPT !.voltage = value]
      [] parts = <<"L1", "F">> -> [self EXCEPT !.frequency = value]
      [] OTHER -> self

AcSpec_handle_frame(self, parts, value) ==
    CASE parts = <<"L1", "V">> -> [self EXCEPT !.voltage = value]
      [] parts = <<"L1", "P">> -> [self EXCEPT !.power = value]
      [] parts = <<"L1", "F">> -> [self EXCEPT !.frequency = value]
      [] OTHER -> self

\* a slip: the setpoint is assigned without looking at the pattern
Ess_handle_frame_any_rest(self, parts, value) ==
    [self EXCEPT !.grid_setpoint = value]

Ess_handle_frame(self, parts, value) ==
    CASE parts = <<"L1", "AcPowerSetpoint">> ->
             [self EXCEPT !.grid_setpoint = value]
      [] OTHER -> self

\* a slip in the table: the Power pattern assigns the current
BatteryDC_handle_frame_swapped(self, parts, value) ==
    CASE parts = <<"Dc", "0", "Temperature">> ->
             [self EXCEPT !.temperature = value]
      [] parts = <<"Dc", "0", "Power">> ->
             [self EXCEPT !.dc_current = value]
      [] parts = <<"Dc", "0", "Current">> ->
             [self EXCEPT !.dc_current = value]
      [] parts = <<"Dc", "0", "Voltage">> ->
             [self EXCEPT !.dc_voltage = value]
      [] parts = <<"System", "MinCellVoltage">> ->
             [self EXCEPT !.cell_min_voltage = value]
      [] parts = <<"System", "MaxCellVoltage">> ->
             [self EXCEPT !.cell_max_voltage = value]
      [] parts = <<"Soc">> -> [self EXCEPT !.soc = value]
      [] parts = <<"Soh">> -> [self EXCEPT !.soh = value]
      [] OTHER -> self

BatteryDC_handle_frame(self, parts, value) ==
    CASE parts = <<"Dc", "0", "Temperature">> ->
             [self EXCEPT !.temperature = value]
      [] parts = <<"Dc", "0", "Power">> ->
             [self EXCEPT !.dc_power = value]
      [] parts = <<"Dc", "0", "Current">> ->
             [self EXCEPT !.dc_current = value]
      [] parts = <<"Dc", "0", "Voltage">> ->
             [self EXCEPT !.dc_voltage = value]
      [] parts = <<"System", "MinCellVoltage">> ->
             [self EXCEPT !.cell_min_voltage = value]
      [] parts = <<"System", "MaxCellVoltage">> ->
             [self EXCEPT !.cell_max_voltage = value]
      [] parts = <<"Soc">> -> [self EXCEPT !.soc = value]
      [] parts = <<"Soh">> -> [self EXCEPT !.soh = value]
      [] OTHER -> self

\* a slip: the energy counter adds the value to the one it holds
PvInverter_handle_frame_adding(self, parts, value) ==
    CASE parts = <<"Ac", "Power">> -> [self EXCEPT !.power = value]
      [] parts = <<"Ac", "MaxPower">> ->
             [self EXCEPT !.max_power = value]
      [] parts = <<"Ac", "Energy", "Forward">> ->
             [self EXCEPT !.total_energy =
                 IF @ = <<>> \/ value = <<>> THEN value ELSE <<@[1] + value[1]>>]
      [] OTHER -> self

PvInverter_handle_frame(self, parts, value) ==
    CASE parts = <<"Ac", "Power">> -> [self EXCEPT !.power = value]
      [] parts = <<"Ac", "MaxPower">> ->
             [self EXCEPT !.max_power = value]
      [] parts = <<"Ac", "Energy", "Forward">> ->
             [self EXCEPT !.total_energy = value]
      [] OTHER -> self

----------------------------------------------------------------------------
(* str::parse::<u16>() *)

U16Max == 65535

\* the characters of the id segments the model feeds
Chars(s) ==
    CASE s = "" -> <<>>
      [] s = "0" -> <<"0">>
      [] s = "20" -> <<"2", "0">>
      [] s = "21" -> <<"2", "1">>
      [] s = "22" -> <<"2", "2">>
      [] s = "512" -> <<"5", "1", "2">>
      [] s = "513" -> <<"5", "1", "3">>
      [] s = "+20" -> <<"+", "2", "0">>
      [] s = "-1" -> <<"-", "1">>
      [] s = "abc" -> <<"a", "b", "c">>
      [] s = "65556" -> <<"6", "5", "5", "5", "6">>

Digits == {"0", "1", "2", "3", "4", "5", "6", "7", "8", "9"}

to_digit(c) ==
    CASE c = "0" -> 0 [] c = "1" -> 1 [] c = "2" -> 2 [] c = "3" -> 3
      [] c = "4" -> 4 [] c = "5" -> 5 [] c = "6" -> 6 [] c = "7" -> 7
      [] c = "8" -> 8 [] c = "9" -> 9

\* a slip: the digit loop saturates at u16::MAX in place of failing
RECURSIVE parse_digits_saturating(_, _)
parse_digits_saturating(chars, acc) ==
    IF chars = <<>> THEN <<acc>>
    ELSE IF Head(chars) \notin Digits THEN <<>>
    ELSE IF acc * 10 + to_digit(Head(chars)) > U16Max THEN <<U16Max>>
    ELSE parse_digits_saturating(Tail(chars), acc * 10 + to_digit(Head(chars)))

\* the digit loop with checked multiplication and addition: <<n>> or <<>> (Err)
RECURSIVE parse_digits(_, _)
parse_digits(chars, acc) ==
    IF chars = <<>> THEN <<acc>>
    ELSE IF Head(chars) \notin Digits THEN <<>>
    ELSE IF acc * 10 + to_digit(Head(chars)) > U16Max THEN <<>>
    ELSE parse_digits(Tail(chars), acc * 10 + to_digit(Head(chars)))

\* u16::from_str: <<n>> for Ok(n), <<>> for Err
parse_u16(s) ==
    LET chars == Chars(s) IN
    IF chars = <<>> THEN <<>>
    ELSE IF chars = <<"+">> \/ chars = <<"-">> THEN <<>>
    ELSE IF Head(chars) = "+" THEN parse_digits(Tail(chars), 0)
    ELSE parse_digits(chars, 0)

\* a slip: another fallback than the one passed (u16::MAX in place of 0)
unwrap_or_max(r, default) == IF r = <<>> THEN U16Max ELSE r[1]

unwrap_or(r, default) == IF r = <<>> THEN default ELSE r[1]

----------------------------------------------------------------------------
(* VictronGx::handle_publish *)

\* a slip: insert(id, default) in place of entry(id).or_default()
entry_insert_default(map, id, default) ==
    (id :> default) @@ map

\* HashMap::entry(id).or_default()
entry_or_default(map, id, default) ==
    IF id \in DOMAIN map THEN map ELSE map @@ (id :> default)

\* a slip: unwrap_or(0.0) on the decoded value
decode_value_or_zero(payload) ==
    IF ~payload.json THEN Some(0)
    ELSE IF ~payload.has_value THEN Some(0)
    ELSE IF ~payload.is_number THEN Some(0)
    ELSE Some(payload.number)

\* serde_json::from_str(..).get("value").and_then(as_f64), None on a parse error
decode_value(payload) ==
    IF ~payload.json THEN None
    ELSE IF ~payload.has_value THEN None
    ELSE IF ~payload.is_number THEN None
    ELSE Some(payload.number)

\* a slip: the prefix is compared without the serial
has_prefix_any_serial(topic, sn) ==
    Len(topic) >= 3 /\ topic[1] = "N"

\* topic.strip_prefix("N/<serial>/"): does the topic carry the prefix
has_prefix(topic, sn) ==
    Len(topic) >= 3 /\ topic[1] = "N" /\ topic[2] = sn

\* a slip: the pattern leaves the device instance (second segment) open
starts_with_any_instance(parts, pat) ==
    /\ Len(parts) >= Len(pat)
    /\ \A i \in 1..Len(pat) : i # 2 => parts[i] = pat[i]

\* slice pattern [a, b, .., rest @ ..]
starts_with(parts, pat) ==
    Len(parts) >= Len(pat) /\ SubSeq(parts, 1, Len(pat)) = pat

rest_after(parts, n) == SubSeq(parts, n + 1, Len(parts))

\* the match on parts.as_slice(), under the write lock
dispatch(d, parts, value) ==
    IF starts_with(parts, <<"vebus", "275", "Ac", "ActiveIn">>) THEN
        [d EXCEPT !.ac_input = AcSpec_handle_frame(@, rest_after(parts, 4), value)]
    ELSE IF starts_with(parts, <<"vebus", "275", "Ac", "Out">>) THEN
        [d EXCEPT !.ac_output = AcSpec_handle_frame(@, rest_after(parts, 4), value)]
    ELSE IF Len(parts) >= 2 /\ parts[1] = "battery" THEN
        LET id == unwrap_or(parse_u16(parts[2]), 0)
            map == entry_or_default(d.batteries_dc, id, BatteryDCDefault)
        IN [d EXCEPT !.batteries_dc =
               [map EXCEPT ![id] = BatteryDC_handle_frame(@, rest_after(parts, 2), value)]]
    ELSE IF Len(parts) >= 2 /\ parts[1] = "pvinverter" THEN
        LET id == unwrap_or(parse_u16(parts[2]), 0)
            map == entry_or_default(d.pv_inverters, id, PvInverterDefault)
        IN [d EXCEPT !.pv_inverters =
               [map EXCEPT ![id] = PvInverter_handle_frame(@, rest_after(parts, 2), value)]]
    ELSE IF starts_with(parts, <<"vebus", "275", "Hub4">>) THEN
        [d EXCEPT !.ess = Ess_handle_frame(@, rest_after(parts, 3), value)]
    ELSE d

\* a slip: String::from_utf8_lossy, the frame goes on to the dispatcher
handle_publish_lossy(d, sn, topic, payload) ==
    IF ~has_prefix(topic, sn) THEN d
    ELSE dispatch(d, rest_after(topic, 2),
                  IF payload.utf8 THEN decode_value(payload) ELSE None)

handle_publish(d, sn, topic, payload) ==
    IF ~payload.utf8 THEN d
    ELSE IF ~has_prefix(topic, sn) THEN d
    ELSE dispatch(d, rest_after(topic, 2), decode_value(payload))

----------------------------------------------------------------------------
(* Summaries *)

\* the values of a HashMap in one iteration order
RECURSIVE values_of(_)
values_of(map) ==
    IF DOMAIN map = {} THEN <<>>
    ELSE LET k == CHOOSE x \in DOMAIN map : \A y \in DOMAIN map : x <= y
         IN <<map[k]>> \o values_of([x \in DOMAIN map \ {k} |-> map[x]])

\* a slip: map(|b| b.<field>.unwrap_or(0.0)) in place of filter_map
RECURSIVE map_unwrap_or_zero(_)
map_unwrap_or_zero(opts) ==
    IF opts = <<>> THEN <<>>
    ELSE IF Head(opts) = <<>> THEN <<0>> \o map_unwrap_or_zero(Tail(opts))
    ELSE <<Head(opts)[1]>> \o map_unwrap_or_zero(Tail(opts))

\* iter.filter_map(|b| b.<field>).collect::<Vec<f64>>() over a list of options
RECURSIVE filter_map(_)
filter_map(opts) ==
    IF opts = <<>> THEN <<>>
    ELSE IF Head(opts) = None THEN filter_map(Tail(opts))
    ELSE <<Head(opts)[1]>> \o filter_map(Tail(opts))

RECURSIVE sum(_)
sum(values) == IF values = <<>> THEN 0 ELSE Head(values) + sum(Tail(values))

\* if values.is_empty() { None } else { Some(values.into_iter().sum()) }
total_of(values) == IF values = <<>> THEN None ELSE Some(sum(values))

from_batteries(batteries) ==
    [avg_voltage |-> None,
     avg_temperature |-> None,
     total_power |->
         total_of(filter_map([i \in 1..Len(batteries) |-> batteries[i].dc_power]))]

from_pv_inverters(inverters) ==
    [total_power |->
         total_of(filter_map([i \in 1..Len(inverters) |-> inverters[i].power]))]

get_battery_summary(d) == from_batteries(values_of(d.batteries_dc))

get_pv_inverter_summary(d) == from_pv_inverters(values_of(d.pv_inverters))

----------------------------------------------------------------------------
(* Read accessors: what each returns from the store it reads *)

\* a slip: the other direction's record is cloned
get_ac_input_other_direction(d) == d.ac_output

\* self.data.read().await.ac_input.clone()
get_ac_input(d) == d.ac_input

get_ac_output(d) == d.ac_output

get_ess(d) == d.ess

\* map.iter().map(|(id, x)| (*id, x.clone())).collect(), in one iteration order
RECURSIVE pairs_of(_)
pairs_of(map) ==
    IF DOMAIN map = {} THEN <<>>
    ELSE LET k == CHOOSE x \in DOMAIN map : \A y \in DOMAIN map : x <= y
         IN <<(<<k, map[k]>>)>> \o pairs_of([x \in DOMAIN map \ {k} |-> map[x]])

get_batteries_dc(d) == pairs_of(d.batteries_dc)

get_pv_inverters(d) == pairs_of(d.pv_inverters)

----------------------------------------------------------------------------
(* The RwLock around the store: a semaphore of MAX_READS permits with a     *)
(* FIFO queue; a reader needs one permit, the writer needs them all         *)

\* the callers of read accessors
Readers == 1..MaxReaders

\* the event loop, the one task that takes the write lock
Writer == 0

\* the permits of the semaphore: more than there are readers
MAX_READS == MaxReaders + 1

\* a slip: the write lock takes a single permit
permits_of_one(kind) == 1

\* RwLock::read() acquires one permit, RwLock::write() acquires all
permits_of(kind) == IF kind = "write" THEN MAX_READS ELSE 1

Waiter(task, remaining) == [task |-> task, remaining |-> remaining]

\* Semaphore::acquire(n): with n free permits they are taken at once; else the
\* free permits are taken and the task queues for the remaining ones
acquire(p, q, task, n) ==
    IF p >= n
    THEN [permits |-> p - n, waiters |-> q, woken |-> {task}]
    ELSE [permits |-> 0, waiters |-> Append(q, Waiter(task, n - p)), woken |-> {}]

\* a slip: the permits become free and the queued tasks are not woken
add_permits_unqueued(p, q, n, woken) ==
    [permits |-> p + n, waiters |-> q, woken |-> woken]

\* Semaphore::add_permits(n): the permits go to the queued tasks, oldest
\* first; a task that has all it needs is woken; what is left becomes free
RECURSIVE add_permits(_, _, _, _)
add_permits(p, q, n, woken) ==
    IF n = 0 THEN [permits |-> p, waiters |-> q, woken |-> woken]
    ELSE IF q = <<>> THEN [permits |-> p + n, waiters |-> q, woken |-> woken]
    ELSE IF Head(q).remaining <= n
    THEN add_permits(p, Tail(q), n - Head(q).remaining, woken \cup {Head(q).task})
    ELSE [permits |-> p,
          waiters |-> <<Waiter(Head(q).task, Head(q).remaining - n)>> \o Tail(q),
          woken |-> woken]

\* the part of the match arm before handle_frame: entry(id).or_default()
dispatch_entry(d, parts) ==
    IF Len(parts) >= 2 /\ parts[1] = "battery" THEN
        [d EXCEPT !.batteries_dc =
            entry_or_default(@, unwrap_or(parse_u16(parts[2]), 0), BatteryDCDefault)]
    ELSE IF Len(parts) >= 2 /\ parts[1] = "pvinverter" THEN
        [d EXCEPT !.pv_inverters =
            entry_or_default(@, unwrap_or(parse_u16(parts[2]), 0), PvInverterDefault)]
    ELSE d

AccessorOps ==
    {"get_ac_input", "get_ac_output", "get_ess", "get_batteries_dc",
     "get_pv_inverters", "get_battery_summary", "get_pv_inverter_summary"}

\* what each accessor clones under the read guard
snapshot_of(op, d) ==
    CASE op = "get_ac_input" -> get_ac_input(d)
      [] op = "get_ac_output" -> get_ac_output(d)
      [] op = "get_ess" -> get_ess(d)
      [] op = "get_batteries_dc" -> get_batteries_dc(d)
      [] op = "get_pv_inverters" -> get_pv_inverters(d)
      [] op = "get_battery_summary" -> get_battery_summary(d)
      [] op = "get_pv_inverter_summary" -> get_pv_inverter_summary(d)

----------------------------------------------------------------------------
(* What the transport delivers *)

Serials == {"S1", "S2"}

\* payload bytes, by what the decoding steps make of them
Payload(utf8, json, has_value, is_number, number) ==
    [utf8 |-> utf8, json |-> json, has_value |-> has_value,
     is_number |-> is_number, number |-> number]

\* {"value": n}
Num(n) == Payload(TRUE, TRUE, TRUE, TRUE, n)
\* bytes that are not UTF-8
BadUtf8 == Payload(FALSE, FALSE, FALSE, FALSE, 0)
\* text that is not JSON
BadJson == Payload(TRUE, FALSE, FALSE, FALSE, 0)
\* {"other": 1}
NoValue == Payload(TRUE, TRUE, FALSE, FALSE, 0)
\* {"value": "on"}
StrValue == Payload(TRUE, TRUE, TRUE, FALSE, 0)

Payloads == {Num(100), Num(50), BadUtf8, BadJson, NoValue, StrValue}

AcRests == {<<"L1", "V">>, <<"L1", "P">>, <<"L1", "F">>}

BatteryRests ==
    {<<"Dc", "0", "Temperature">>, <<"Dc", "0", "Power">>, <<"Dc", "0", "Current">>,
     <<"Dc", "0", "Voltage">>, <<"System", "MinCellVoltage">>,
     <<"System", "MaxCellVoltage">>, <<"Soc">>, <<"Soh">>}

PvInverterRests == {<<"Ac", "Power">>, <<"Ac", "MaxPower">>, <<"Ac", "Energy", "Forward">>}

\* id segments that parse, and id segments that do not or that give another id
GoodIds == {"512", "513"}
OddIds == {"0", "abc", "", "-1", "65556", "+20"}

\* suffixes a route and a field pattern match
MatchedSuffixes ==
    {<<"vebus", "275", "Ac", "ActiveIn">> \o r : r \in AcRests}
    \cup {<<"vebus", "275", "Ac", "Out">> \o r : r \in AcRests}
    \cup {<<"vebus", "275", "Hub4", "L1", "AcPowerSetpoint">>}
    \cup {<<"battery", id>> \o r : id \in GoodIds, r \in BatteryRests}
    \cup {<<"battery", id, "Soc">> : id \in OddIds}
    \cup {<<"pvinverter", id>> \o r : id \in GoodIds, r \in PvInverterRests}
    \cup {<<"pvinverter", id, "Ac", "Power">> : id \in OddIds}

\* suffixes a route matches and no field pattern of the entity does
EntityMissSuffixes ==
    {<<"vebus", "275", "Ac", "ActiveIn", "L2", "V">>,
     <<"vebus", "275", "Ac", "Out">>,
     <<"vebus", "275", "Hub4", "L1", "Foo">>,
     <<"battery", "512", "Dc", "0">>,
     <<"battery", "513">>,
     <<"pvinverter", "512", "Ac">>}

\* suffixes no route matches
RouteMissSuffixes ==
    {<<"some", "unknown", "path">>,
     <<"">>,
     <<"battery">>,
     <<"vebus", "275", "Ac">>,
     <<"vebus", "276", "Ac", "ActiveIn", "L1", "V">>,
     <<"Battery", "512", "Soc">>}

Suffixes == MatchedSuffixes \cup EntityMissSuffixes \cup RouteMissSuffixes

OtherSerial(sn) == CHOOSE o \in Serials : o # sn

\* topics that do not start with "N/<sn>/"
ForeignTopics(sn) ==
    {<<"N", sn>>, <<"N">>, <<"R", sn, "keepalive">>}
    \cup {p \o s : p \in {<<"N", OtherSerial(sn)>>, <<"N", "S1x">>, <<"", "N", sn>>,
                          <<"W", sn>>},
                   s \in {<<"battery", "512", "Soc">>,
                          <<"vebus", "275", "Ac", "ActiveIn", "L1", "V">>}}

Topics(sn) == {<<"N", sn>> \o s : s \in Suffixes} \cup ForeignTopics(sn)

Frame(topic, payload) == [topic |-> topic, payload |-> payload]

\* the publish packets of the dispatch specification
Frames(sn) == {Frame(t, p) : t \in Topics(sn), p \in Payloads}

\* the publish packets of the summary specification
SummaryFrames(sn) ==
    {Frame(<<"N", sn, "pvinverter", id, "Ac", "Power">>, p) :
        id \in {"20", "21", "22"}, p \in {Num(100), Num(50), BadJson}}
    \cup {Frame(<<"N", sn, "pvinverter", id, "Ac", "MaxPower">>, Num(100)) :
        id \in {"20", "21", "22"}}
    \cup {Frame(<<"N", sn, "battery", id, "Dc", "0", "Power">>, p) :
        id \in {"512", "513"}, p \in {Num(120), Num(-50), NoValue}}
    \cup {Frame(<<"N", sn, "battery", id>> \o r, Num(87)) :
        id \in {"512", "513"},
        r \in {<<"Soc">>, <<"Dc", "0", "Voltage">>, <<"Dc", "0", "Temperature">>}}

\* the publish packets of the accessor specification
AccessFrames(sn) ==
    {Frame(<<"N", sn, "battery", "512", "Soc">>, Num(87)),
     Frame(<<"N", sn, "battery", "513", "Dc", "0", "Power">>, Num(50)),
     Frame(<<"N", sn, "pvinverter", "20", "Ac", "Power">>, Num(100)),
     Frame(<<"N", sn, "vebus", "275", "Ac", "ActiveIn", "L1", "V">>, Num(100)),
     Frame(<<"N", sn, "vebus", "275", "Ac", "ActiveIn", "L1", "V">>, BadJson),
     Frame(<<"N", sn, "vebus", "275", "Ac", "Out", "L1", "P">>, Num(50)),
     Frame(<<"N", sn, "vebus", "275", "Hub4", "L1", "AcPowerSetpoint">>, Num(-50))}

\* the publish packets of the ordering specification
OrderFrames(sn) ==
    {Frame(<<"N", sn, "vebus", "275", "Ac", "ActiveIn", "L1", "V">>, Num(100)),
     Frame(<<"N", sn, "vebus", "275", "Ac", "ActiveIn", "L1", "V">>, Num(50)),
     Frame(<<"N", sn, "vebus", "275", "Ac", "ActiveIn", "L1", "V">>, NoValue),
     Frame(<<"N", sn, "battery", "512", "Soc">>, Num(87)),
     Frame(<<"N", sn, "battery", "512", "Soc">>, BadUtf8),
     Frame(<<"N", sn, "battery", "512", "Dc", "0", "Power">>, Num(50)),
     Frame(<<"N", sn, "pvinverter", "20", "Ac", "Power">>, Num(100)),
     Frame(<<"N", OtherSerial(sn), "vebus", "275", "Ac", "ActiveIn", "L1", "V">>, Num(50))}

\* the publish packets of the lock specification
LockFrames(sn) ==
    {Frame(<<"N", sn, "battery", "512", "Soc">>, Num(87)),
     Frame(<<"N", sn, "battery", "513", "Dc", "0", "Power">>, Num(50)),
     Frame(<<"N", sn, "pvinverter", "20", "Ac", "Power">>, Num(100)),
     Frame(<<"N", sn, "vebus", "275", "Ac", "ActiveIn", "L1", "V">>, Num(100)),
     Frame(<<"N", OtherSerial(sn), "battery", "512", "Soc">>, Num(50))}

\* the publish packets of the service specification
ServiceFrames(sn) ==
    {Frame(<<"N", sn, "battery", "512", "Soc">>, Num(87)),
     Frame(<<"N", sn, "vebus", "275", "Hub4", "L1", "AcPowerSetpoint">>, Num(50))}

\* the publish packets of the progress specification
FairFrames(sn) ==
    {Frame(<<"N", sn, "battery", "512", "Soc">>, Num(87)),
     Frame(<<"N", sn, "vebus", "275", "Ac", "ActiveIn", "L1", "V">>, Num(100))}

\* the publish packets of the device id specification
IdFrames(sn) ==
    {Frame(<<"N", sn, "battery", "abc", "Soc">>, Num(87)),
     Frame(<<"N", sn, "battery", "-1", "Dc", "0", "Power">>, Num(50)),
     Frame(<<"N", sn, "battery", "0", "Soh">>, Num(100)),
     Frame(<<"N", sn, "battery", "", "Soc">>, Num(50)),
     Frame(<<"N", sn, "battery", "65556", "Dc", "0", "Voltage">>, Num(50)),
     Frame(<<"N", sn, "battery", "512", "Soc">>, Num(87)),
     Frame(<<"N", sn, "pvinverter", "abc", "Ac", "Power">>, Num(100)),
     Frame(<<"N", sn, "pvinverter", "65556", "Ac", "MaxPower">>, Num(50))}

\* the publish packets of the lifecycle specification
FeedFrames(sn) ==
    {Frame(<<"N", sn, "battery", "512", "Soc">>, Num(87)),
     Frame(<<"N", sn, "vebus", "275", "Ac", "ActiveIn", "L1", "V">>, Num(100)),
     Frame(<<"N", sn, "vebus", "275", "Ac", "ActiveIn", "L1", "V">>, BadJson),
     Frame(<<"N", OtherSerial(sn), "battery", "512", "Soc">>, Num(50))}

NoPublish == Frame(<<>>, BadUtf8)

NoReturn == [op |-> "none", value |-> <<>>]

----------------------------------------------------------------------------
(* Outbound publishes *)

\* client.publish(topic, QoS::AtLeastOnce, false, content)
Outbound(topic, content) == [topic |-> topic, content |-> content]

NoSent == Outbound(<<>>, BadUtf8)

\* the empty payload "" of the keepalive
EmptyText == Payload(TRUE, FALSE, FALSE, FALSE, 0)

\* format!("R/{}/keepalive", serial_number)
keepalive_topic(sn) == <<"R", sn, "keepalive">>

\* format!("W/{}/settings/0/Settings/CGwacs/AcPowerSetPoint", self.serial_number)
ess_set_setpoint_topic(sn) ==
    <<"W", sn, "settings", "0", "Settings", "CGwacs", "AcPowerSetPoint">>

\* the literal topic of set_ac_power_setpoint
set_ac_power_setpoint_topic(sn) ==
    <<"W", "028102353a50", "settings", "0", "Settings", "CGwacs", "AcPowerSetPoint">>

\* the literal topic of send_mqtt (the last of the three shadowing lets)
send_mqtt_topic(sn) ==
    <<"W", "028102353a50", "settings", "0", "Settings", "CGwacs", "AcPowerSetPoint">>

\* what a command operation hands back to its caller
CommandReturn(op, accepted, result) ==
    [op |-> op, accepted |-> accepted, result |-> result]

NoCommand == CommandReturn("none", TRUE, "Unit")

\* client.publish(..).await?; Ok(())
ess_set_setpoint_result(accepted) == IF accepted THEN "Ok" ELSE "Err"

\* if let Err(e) = client.publish(..).await { error!(..) }: the function returns ()
set_ac_power_setpoint_result(accepted) == "Unit"

\* client.publish(..).await?; Ok(())
send_mqtt_result(accepted) == IF accepted THEN "Ok" ELSE "Err"

\* the setpoints the callers pass
SetpointValues == {0, 1234, -500}

----------------------------------------------------------------------------
(* State after VictronGx::new returned Ok: both tasks are spawned *)

Init ==
    /\ serial_number \in Serials
    /\ data = VictronDataDefault
    /\ ev_pc = "spawned"
    /\ publish = NoPublish
    /\ ev_notified = FALSE
    /\ ka_pc = "spawned"
    /\ ka_notified = FALSE
    /\ n_events = 0
    /\ n_ticks = 0
    /\ n_shutdowns = 0
    /\ ev_polled = FALSE
    /\ ka_polled = FALSE
    /\ ret = NoReturn
    /\ sent = NoSent
    /\ cmd_ret = NoCommand
    /\ stream = <<>>
    /\ n_errors = 0
    /\ ka_result = "none"
    /\ permits = MAX_READS
    /\ waiters = <<>>
    /\ rd_pc = [r \in Readers |-> "idle"]

ev_vars == <<ev_pc, publish, ev_notified, n_events, ev_polled, n_errors>>
ka_vars == <<ka_pc, ka_notified, n_ticks, ka_polled, ka_result>>
lock_vars == <<permits, waiters, rd_pc>>

----------------------------------------------------------------------------
(* The event loop task *)

\* first poll of the task: select! creates shutdown.notified() and polls
ev_start ==
    /\ ev_pc = "spawned"
    /\ ev_pc' = "select"
    /\ UNCHANGED <<serial_number, data, publish, ev_notified, n_events, ev_polled,
                   ka_vars, n_shutdowns, ret, sent, cmd_ret, stream, n_errors, lock_vars>>

\* select! completes with another branch than notified(): the Notified future
\* of this iteration is dropped, woken or not
ev_leave_select ==
    /\ ev_notified' = FALSE
    /\ ev_polled' = (ev_polled \/ n_shutdowns > 0)

\* eventloop.poll() gives Ok(Event::Incoming(Packet::Publish(publish)))
ev_poll_publish(frames, bound) ==
    /\ ev_pc = "select"
    /\ n_events < bound
    /\ \E f \in frames :
        /\ publish' = f
        /\ ev_pc' = "handling"
        /\ n_events' = n_events + 1
        /\ ev_leave_select
    /\ UNCHANGED <<serial_number, data, ka_vars, n_shutdowns, ret, sent, cmd_ret, stream, n_errors, lock_vars>>

\* handle_publish(..).await returns and the loop re-enters select!
ev_handle_publish ==
    /\ ev_pc = "handling"
    /\ data' = handle_publish(data, serial_number, publish.topic, publish.payload)
    /\ ev_pc' = "select"
    /\ UNCHANGED <<serial_number, publish, ev_notified, n_events, ev_polled, ka_vars,
                   n_shutdowns, ret, sent, cmd_ret, stream, n_errors, lock_vars>>

\* a slip: the newest delivered packet is taken, older ones are skipped
poll_newest(delivered, consumed) ==
    IF consumed < Len(delivered) THEN {delivered[Len(delivered)]} ELSE {}

\* eventloop.poll() on a stream: the oldest packet not yet consumed, if any
poll_next(delivered, consumed) ==
    IF consumed < Len(delivered) THEN {delivered[consumed + 1]} ELSE {}

\* the transport delivers one more publish packet to the event loop's connection
transport_deliver(frames) ==
    /\ Len(stream) < MaxStream
    /\ \E f \in frames : stream' = Append(stream, f)
    /\ UNCHANGED <<serial_number, data, ev_vars, ka_vars, n_shutdowns, ret, sent, cmd_ret, lock_vars>>

\* eventloop.poll() gives Ok(_), any other event
ev_poll_other ==
    /\ ev_pc = "select"
    /\ n_events < MaxEvents
    /\ n_events' = n_events + 1
    /\ ev_leave_select
    /\ UNCHANGED <<serial_number, data, ev_pc, publish, ka_vars, n_shutdowns, ret, sent, cmd_ret, stream, n_errors, lock_vars>>

\* a slip: the loop breaks on a transport error
ev_poll_error_fatal ==
    /\ ev_pc = "select"
    /\ n_events < MaxEvents
    /\ n_events' = n_events + 1
    /\ n_errors' = n_errors + 1
    /\ ev_pc' = "stopped"
    /\ ev_leave_select
    /\ UNCHANGED <<serial_number, data, publish, ka_vars, n_shutdowns, ret, sent, cmd_ret, stream, lock_vars>>

\* eventloop.poll() gives Err(e): the task sleeps 5 seconds
ev_poll_error ==
    /\ ev_pc = "select"
    /\ n_events < MaxEvents
    /\ n_events' = n_events + 1
    /\ n_errors' = n_errors + 1
    /\ ev_pc' = "backoff"
    /\ ev_leave_select
    /\ UNCHANGED <<serial_number, data, publish, ka_vars, n_shutdowns, ret, sent, cmd_ret, stream, lock_vars>>

\* the sleep ends and the loop re-enters select!
ev_backoff_done ==
    /\ ev_pc = "backoff"
    /\ ev_pc' = "select"
    /\ UNCHANGED <<serial_number, data, publish, ev_notified, n_events, ev_polled,
                   ka_vars, n_shutdowns, ret, sent, cmd_ret, stream, n_errors, lock_vars>>

\* select! completes with the notified() branch: break
ev_shutdown ==
    /\ ev_pc = "select"
    /\ ev_notified
    /\ ev_pc' = "stopped"
    /\ ev_notified' = FALSE
    /\ ev_polled' = TRUE
    /\ UNCHANGED <<serial_number, data, publish, n_events, ka_vars, n_shutdowns, ret, sent, cmd_ret, stream, n_errors, lock_vars>>

----------------------------------------------------------------------------
(* The keepalive task *)

\* first poll of the task: the interval is created, select! creates notified()
ka_start ==
    /\ ka_pc = "spawned"
    /\ ka_pc' = "select"
    /\ UNCHANGED <<serial_number, data, ev_vars, ka_notified, n_ticks, ka_polled,
                   n_shutdowns, ret, sent, cmd_ret, stream, ka_result, lock_vars>>

\* interval.tick() completes: client.publish(topic, ..).await starts
ka_tick ==
    /\ ka_pc = "select"
    /\ n_ticks < MaxTicks
    /\ n_ticks' = n_ticks + 1
    /\ ka_pc' = "publishing"
    /\ ka_notified' = FALSE
    /\ ka_polled' = (ka_polled \/ n_shutdowns > 0)
    /\ sent' = Outbound(keepalive_topic(serial_number), EmptyText)
    /\ UNCHANGED <<serial_number, data, ev_vars, n_shutdowns, ret, cmd_ret, stream, ka_result, lock_vars>>

\* the results client.publish(..).await can give
PublishResults == {"Ok", "Err"}

\* a slip: the task returns when the publish has failed
ka_publish_done_fatal ==
    /\ ka_pc = "publishing"
    /\ \E result \in PublishResults :
        /\ ka_result' = result
        /\ ka_pc' = IF result = "Err" THEN "stopped" ELSE "select"
    /\ UNCHANGED <<serial_number, data, ev_vars, ka_notified, n_ticks, ka_polled,
                   n_shutdowns, ret, sent, cmd_ret, stream, lock_vars>>

\* the publish returns, Ok or Err (logged), and the loop re-enters select!
ka_publish_done ==
    /\ ka_pc = "publishing"
    /\ \E result \in PublishResults : ka_result' = result
    /\ ka_pc' = "select"
    /\ UNCHANGED <<serial_number, data, ev_vars, ka_notified, n_ticks, ka_polled,
                   n_shutdowns, ret, sent, cmd_ret, stream, lock_vars>>

\* select! completes with the notified() branch: break
ka_shutdown ==
    /\ ka_pc = "select"
    /\ ka_notified
    /\ ka_pc' = "stopped"
    /\ ka_notified' = FALSE
    /\ ka_polled' = TRUE
    /\ UNCHANGED <<serial_number, data, ev_vars, n_ticks, n_shutdowns, ret, sent, cmd_ret, stream, ka_result, lock_vars>>

----------------------------------------------------------------------------
(* Public operations *)

\* a notify that stores a permit for a waiter that comes later
notify_storing_permit(pc, notified) == TRUE

\* Notify::notify_waiters(): wakes the Notified futures that exist now and
\* stores no permit
notify_waiters(pc, notified) == notified \/ pc = "select"

shutdown ==
    /\ n_shutdowns < MaxShutdowns
    /\ n_shutdowns' = n_shutdowns + 1
    /\ ev_notified' = notify_waiters(ev_pc, ev_notified)
    /\ ka_notified' = notify_waiters(ka_pc, ka_notified)
    /\ UNCHANGED <<serial_number, data, ev_pc, publish, n_events, ev_polled,
                   ka_pc, n_ticks, ka_polled, ret, sent, cmd_ret, stream, n_errors, ka_result, lock_vars>>

call_get_battery_summary ==
    /\ ret' = [op |-> "get_battery_summary", value |-> get_battery_summary(data)]
    /\ UNCHANGED <<serial_number, data, ev_vars, ka_vars, n_shutdowns, sent, cmd_ret, stream, lock_vars>>

call_get_pv_inverter_summary ==
    /\ ret' = [op |-> "get_pv_inverter_summary",
               value |-> get_pv_inverter_summary(data)]
    /\ UNCHANGED <<serial_number, data, ev_vars, ka_vars, n_shutdowns, sent, cmd_ret, stream, lock_vars>>

\* a read accessor takes the read lock, clones and returns
call_accessor(op, value) ==
    /\ ret' = [op |-> op, value |-> value]
    /\ UNCHANGED <<serial_number, data, ev_vars, ka_vars, n_shutdowns, sent, cmd_ret, stream, lock_vars>>

call_get_ac_input == call_accessor("get_ac_input", get_ac_input(data))

call_get_ac_output == call_accessor("get_ac_output", get_ac_output(data))

call_get_ess == call_accessor("get_ess", get_ess(data))

call_get_batteries_dc == call_accessor("get_batteries_dc", get_batteries_dc(data))

call_get_pv_inverters == call_accessor("get_pv_inverters", get_pv_inverters(data))

\* a slip: the command also stores the setpoint it asks for
ess_set_setpoint_storing ==
    /\ \E value \in SetpointValues, accepted \in BOOLEAN :
        /\ sent' = Outbound(ess_set_setpoint_topic(serial_number), Num(value))
        /\ cmd_ret' = CommandReturn("ess_set_setpoint", accepted,
                                    ess_set_setpoint_result(accepted))
        /\ data' = [data EXCEPT !.ess.grid_setpoint = Some(value)]
    /\ UNCHANGED <<serial_number, ev_vars, ka_vars, n_shutdowns, ret, stream, lock_vars>>

\* ess_set_setpoint(value): the transport accepts the publish or rejects it
ess_set_setpoint ==
    /\ \E value \in SetpointValues, accepted \in BOOLEAN :
        /\ sent' = Outbound(ess_set_setpoint_topic(serial_number), Num(value))
        /\ cmd_ret' = CommandReturn("ess_set_setpoint", accepted,
                                    ess_set_setpoint_result(accepted))
    /\ UNCHANGED <<serial_number, data, ev_vars, ka_vars, n_shutdowns, ret, stream, lock_vars>>

set_ac_power_setpoint ==
    /\ \E accepted \in BOOLEAN :
        /\ sent' = Outbound(set_ac_power_setpoint_topic(serial_number), Num(1234))
        /\ cmd_ret' = CommandReturn("set_ac_power_setpoint", accepted,
                                    set_ac_power_setpoint_result(accepted))
    /\ UNCHANGED <<serial_number, data, ev_vars, ka_vars, n_shutdowns, ret, stream, lock_vars>>

send_mqtt ==
    /\ \E accepted \in BOOLEAN :
        /\ sent' = Outbound(send_mqtt_topic(serial_number), Num(0))
        /\ cmd_ret' = CommandReturn("send_mqtt", accepted, send_mqtt_result(accepted))
    /\ UNCHANGED <<serial_number, data, ev_vars, ka_vars, n_shutdowns, ret, stream, lock_vars>>

----------------------------------------------------------------------------
(* The store's lock, step by step *)

\* the positions after the semaphore has woken the tasks in `woken`
rd_woken(pcs, woken) ==
    [r \in Readers |-> IF r \in woken THEN "reading" ELSE pcs[r]]

\* an accessor is called: self.data.read().await
rd_call(r) ==
    /\ rd_pc[r] = "idle"
    /\ LET a == acquire(permits, waiters, r, permits_of("read"))
       IN /\ permits' = a.permits
          /\ waiters' = a.waiters
          /\ rd_pc' = [rd_pc EXCEPT ![r] = IF r \in a.woken THEN "reading" ELSE "waiting"]
    /\ UNCHANGED <<serial_number, data, ev_vars, ka_vars, n_shutdowns, ret, sent,
                   cmd_ret, stream>>

\* the accessor clones under the read guard, drops the guard and returns
rd_return(r, ops) ==
    /\ rd_pc[r] = "reading"
    /\ \E op \in ops : ret' = [op |-> op, value |-> snapshot_of(op, data)]
    /\ LET a == add_permits(permits, waiters, permits_of("read"), {})
       IN /\ permits' = a.permits
          /\ waiters' = a.waiters
          /\ rd_pc' = rd_woken([rd_pc EXCEPT ![r] = "idle"], a.woken)
          /\ ev_pc' = IF Writer \in a.woken THEN "writing" ELSE ev_pc
    /\ UNCHANGED <<serial_number, data, publish, ev_notified, n_events, ev_polled,
                   n_errors, ka_vars, n_shutdowns, sent, cmd_ret, stream>>

\* handle_publish up to data.write().await: UTF-8, JSON, prefix, split
ev_decode ==
    /\ ev_pc = "handling"
    /\ IF ~publish.payload.utf8 \/ ~has_prefix(publish.topic, serial_number)
       THEN /\ ev_pc' = "select"
            /\ UNCHANGED lock_vars
       ELSE LET a == acquire(permits, waiters, Writer, permits_of("write"))
            IN /\ permits' = a.permits
               /\ waiters' = a.waiters
               /\ ev_pc' = IF Writer \in a.woken THEN "writing" ELSE "locking"
               /\ UNCHANGED rd_pc
    /\ UNCHANGED <<serial_number, data, publish, ev_notified, n_events, ev_polled,
                   n_errors, ka_vars, n_shutdowns, ret, sent, cmd_ret, stream>>

\* under the write guard: the match arm up to entry(id).or_default()
ev_entry ==
    /\ ev_pc = "writing"
    /\ data' = dispatch_entry(data, rest_after(publish.topic, 2))
    /\ ev_pc' = "entered"
    /\ UNCHANGED <<serial_number, publish, ev_notified, n_events, ev_polled, n_errors,
                   ka_vars, n_shutdowns, ret, sent, cmd_ret, stream, lock_vars>>

\* under the write guard: handle_frame assigns; the guard is dropped at the
\* end of handle_publish and the loop re-enters select!
ev_assign ==
    /\ ev_pc = "entered"
    /\ data' = dispatch(data, rest_after(publish.topic, 2), decode_value(publish.payload))
    /\ ev_pc' = "select"
    /\ LET a == add_permits(permits, waiters, permits_of("write"), {})
       IN /\ permits' = a.permits
          /\ waiters' = a.waiters
          /\ rd_pc' = rd_woken(rd_pc, a.woken)
    /\ UNCHANGED <<serial_number, publish, ev_notified, n_events, ev_polled, n_errors,
                   ka_vars, n_shutdowns, ret, sent, cmd_ret, stream>>

----------------------------------------------------------------------------
(* Construction *)

\* VictronGx::new has created the client, the store and the Notify; no task
\* is spawned yet
InitNew ==
    /\ serial_number \in Serials
    /\ data = VictronDataDefault
    /\ ev_pc = "unspawned"
    /\ publish = NoPublish
    /\ ev_notified = FALSE
    /\ ka_pc = "unspawned"
    /\ ka_notified = FALSE
    /\ n_events = 0
    /\ n_ticks = 0
    /\ n_shutdowns = 0
    /\ ev_polled = FALSE
    /\ ka_polled = FALSE
    /\ ret = NoReturn
    /\ sent = NoSent
    /\ cmd_ret = NoCommand
    /\ stream = <<>>
    /\ n_errors = 0
    /\ ka_result = "none"
    /\ permits = MAX_READS
    /\ waiters = <<>>
    /\ rd_pc = [r \in Readers |-> "idle"]

\* what new returns for each outcome of the subscribe
new_result(accepted) == IF accepted THEN "Ok" ELSE "Err"

\* task::spawn(Self::keepalive_task(..))
new_spawn_keepalive ==
    /\ ka_pc = "unspawned"
    /\ ka_pc' = "spawned"
    /\ UNCHANGED <<serial_number, data, ev_vars, ka_notified, n_ticks, ka_polled,
                   ka_result, n_shutdowns, ret, sent, cmd_ret, stream, lock_vars>>

\* client.subscribe("N/<serial>/#").await?: on Err new returns the error; on Ok
\* the event loop task is spawned and new returns Ok(Self)
new_subscribe ==
    /\ ka_pc # "unspawned"
    /\ ev_pc = "unspawned"
    /\ cmd_ret = NoCommand
    /\ \E accepted \in BOOLEAN :
        /\ cmd_ret' = CommandReturn("new", accepted, new_result(accepted))
        /\ ev_pc' = IF accepted THEN "spawned" ELSE ev_pc
    /\ UNCHANGED <<serial_number, data, publish, ev_notified, n_events, ev_polled,
                   n_errors, ka_vars, n_shutdowns, ret, sent, stream, lock_vars>>

\* new has returned Ok(Self): there is a VictronGx to call shutdown() on
Constructed == cmd_ret = CommandReturn("new", TRUE, "Ok")

----------------------------------------------------------------------------
(* Specifications *)

\* the whole service: both tasks, the transport's events and shutdown()
Next ==
    \/ ev_start
    \/ ev_poll_publish(FeedFrames(serial_number), MaxEvents)
    \/ ev_handle_publish
    \/ ev_poll_other
    \/ ev_poll_error
    \/ ev_backoff_done
    \/ ev_shutdown
    \/ ka_start
    \/ ka_tick
    \/ ka_publish_done
    \/ ka_shutdown
    \/ shutdown

Spec == Init /\ [][Next]_vars

\* the event loop fed with publish packets of every shape
NextDispatch ==
    \/ ev_start
    \/ ev_poll_publish(Frames(serial_number), MaxFrames)
    \/ ev_handle_publish

SpecDispatch == Init /\ [][NextDispatch]_vars

\* the event loop fed with power frames, and callers of the summary accessors
NextSummary ==
    \/ ev_start
    \/ ev_poll_publish(SummaryFrames(serial_number), MaxSummaryFrames)
    \/ ev_handle_publish
    \/ call_get_battery_summary
    \/ call_get_pv_inverter_summary

SpecSummary == Init /\ [][NextSummary]_vars

\* the event loop and callers of the seven read accessors
NextAccess ==
    \/ ev_start
    \/ ev_poll_publish(AccessFrames(serial_number), MaxEvents)
    \/ ev_handle_publish
    \/ call_get_ac_input
    \/ call_get_ac_output
    \/ call_get_ess
    \/ call_get_batteries_dc
    \/ call_get_pv_inverters
    \/ call_get_battery_summary
    \/ call_get_pv_inverter_summary

SpecAccess == Init /\ [][NextAccess]_vars

\* the event loop fed from the stream of packets the transport has delivered
NextOrder ==
    \/ ev_start
    \/ transport_deliver(OrderFrames(serial_number))
    \/ ev_poll_publish(poll_next(stream, n_events), MaxStream)
    \/ ev_handle_publish

SpecOrder == Init /\ [][NextOrder]_vars

\* the keepalive task beside an event loop that handles frames and errors,
\* with no shutdown(); a spawned task is polled, the interval ticks and a
\* publish returns
NextKeepalive ==
    \/ ev_start
    \/ ev_poll_publish(FeedFrames(serial_number), MaxEvents)
    \/ ev_handle_publish
    \/ ev_poll_error
    \/ ev_backoff_done
    \/ ka_start
    \/ ka_tick
    \/ ka_publish_done

SpecKeepalive ==
    /\ Init
    /\ [][NextKeepalive]_vars
    /\ WF_vars(ka_start)
    /\ WF_vars(ka_tick)
    /\ WF_vars(ka_publish_done)

\* the event loop taking the write lock, callers of the read accessors
\* taking the read lock, and shutdown()
NextLock ==
    \/ ev_start
    \/ ev_poll_publish(LockFrames(serial_number), MaxLockFrames)
    \/ ev_decode
    \/ ev_entry
    \/ ev_assign
    \/ ev_shutdown
    \/ shutdown
    \/ \E r \in Readers : rd_call(r)
    \/ \E r \in Readers : rd_return(r, AccessorOps)

SpecLock == Init /\ [][NextLock]_vars

\* transport events, ticks and shutdown() calls taken together stay below the bound
ServiceBudget == n_events + n_ticks + n_shutdowns < MaxServiceInputs

\* every operation of the service: both tasks, the transport's events, the
\* read accessors, the command operations and shutdown()
NextService ==
    \/ ev_start
    \/ ServiceBudget /\ ev_poll_publish(ServiceFrames(serial_number), MaxEvents)
    \/ ev_handle_publish
    \/ ServiceBudget /\ ev_poll_other
    \/ ServiceBudget /\ ev_poll_error
    \/ ev_backoff_done
    \/ ev_shutdown
    \/ ka_start
    \/ ServiceBudget /\ ka_tick
    \/ ka_publish_done
    \/ ka_shutdown
    \/ ServiceBudget /\ shutdown
    \/ call_get_ac_input
    \/ call_get_ac_output
    \/ call_get_ess
    \/ call_get_batteries_dc
    \/ call_get_pv_inverters
    \/ call_get_battery_summary
    \/ call_get_pv_inverter_summary
    \/ ess_set_setpoint
    \/ set_ac_power_setpoint
    \/ send_mqtt

SpecService == Init /\ [][NextService]_vars

\* the accessors whose values are records
RecordOps ==
    {"get_ac_input", "get_ess", "get_battery_summary"}

\* the lock specification for progress: the accessors that return records,
\* one frame alphabet, and the code between taking and dropping a guard runs
\* to its end, for it holds no await
NextLockFair ==
    \/ ev_start
    \/ ev_poll_publish(FairFrames(serial_number), MaxFairFrames)
    \/ ev_decode
    \/ ev_entry
    \/ ev_assign
    \/ ev_shutdown
    \/ shutdown
    \/ \E r \in Readers : rd_call(r)
    \/ \E r \in Readers : rd_return(r, RecordOps)

SpecLockFair ==
    /\ Init
    /\ [][NextLockFair]_vars
    /\ WF_ev_pc(ev_entry)
    /\ WF_ev_pc(ev_assign)
    /\ \A r \in Readers : WF_rd_pc(rd_return(r, RecordOps))

\* the event loop fed from a stream of frames with malformed and genuine ids
NextIds ==
    \/ ev_start
    \/ transport_deliver(IdFrames(serial_number))
    \/ ev_poll_publish(poll_next(stream, n_events), MaxStream)
    \/ ev_handle_publish

SpecIds == Init /\ [][NextIds]_vars

\* construction, the tasks it spawns, and shutdown() of a constructed service
NextNew ==
    \/ new_spawn_keepalive
    \/ new_subscribe
    \/ ev_start
    \/ ev_poll_publish(FeedFrames(serial_number), MaxEvents)
    \/ ev_handle_publish
    \/ ev_shutdown
    \/ ka_start
    \/ ka_tick
    \/ ka_publish_done
    \/ ka_shutdown
    \/ Constructed /\ shutdown

SpecNew == InitNew /\ [][NextNew]_vars

\* the event loop, the keepalive task and callers of the command operations
NextCommand ==
    \/ ev_start
    \/ ev_poll_publish(FeedFrames(serial_number), MaxEvents)
    \/ ev_handle_publish
    \/ ka_start
    \/ ka_tick
    \/ ka_publish_done
    \/ ess_set_setpoint
    \/ set_ac_power_setpoint
    \/ send_mqtt

SpecCommand == Init /\ [][NextCommand]_vars

----------------------------------------------------------------------------
(* Vocabulary of the properties *)

\* the step in which the event loop applies the packet it took
HandleStep == ev_pc = "handling" /\ ev_pc' = "select"

\* a packet was taken and handle_publish has returned
Handled == ev_pc = "select" /\ n_events > 0

\* the payload is {"value": v} for a number v
IsNumber(payload) ==
    payload.utf8 /\ payload.json /\ payload.has_value /\ payload.is_number

\* the device id a decimal id segment denotes
IdOfSegment(seg) ==
    CASE seg = "0" -> 0
      [] seg = "20" -> 20
      [] seg = "21" -> 21
      [] seg = "22" -> 22
      [] seg = "512" -> 512
      [] seg = "513" -> 513

DecimalIds == {"0", "20", "21", "22", "512", "513"}

\* the field each battery pattern stands for
BatteryFieldOf(rest) ==
    CASE rest = <<"Dc", "0", "Power">> -> "dc_power"
      [] rest = <<"Dc", "0", "Current">> -> "dc_current"
      [] rest = <<"Dc", "0", "Voltage">> -> "dc_voltage"
      [] rest = <<"Dc", "0", "Temperature">> -> "temperature"
      [] rest = <<"System", "MinCellVoltage">> -> "cell_min_voltage"
      [] rest = <<"System", "MaxCellVoltage">> -> "cell_max_voltage"
      [] rest = <<"Soc">> -> "soc"
      [] rest = <<"Soh">> -> "soh"

\* the topic is N/<sn>/<entity>/<id>/<rest> with a decimal id and a rest of `rests`
IsEntityTopic(topic, sn, entity, rests) ==
    /\ Len(topic) >= 5
    /\ SubSeq(topic, 1, 3) = <<"N", sn, entity>>
    /\ topic[4] \in DecimalIds
    /\ SubSeq(topic, 5, Len(topic)) \in rests

RecordOr(map, id, default) == IF id \in DOMAIN map THEN map[id] ELSE default

\* `new` is `old` with the key id added or replaced by rec, and nothing else
MapPut(old, new, id, rec) ==
    /\ DOMAIN new = DOMAIN old \cup {id}
    /\ new[id] = rec
    /\ \A o \in DOMAIN old \ {id} : new[o] = old[o]

----------------------------------------------------------------------------
(* C1: when the event loop applies a frame N/S/battery/<id>/<pattern> with  *)
(* payload {"value": v}, the battery record of <id> afterwards is the       *)
(* record before (all Unset if <id> was no key) with the pattern's field    *)
(* set to v; every other battery, every inverter, ac_input, ac_output and   *)
(* ess are as before.                                                       *)
C1_BatteryFrameEffect ==
    [][(/\ HandleStep
        /\ IsEntityTopic(publish.topic, serial_number, "battery", BatteryRests)
        /\ IsNumber(publish.payload))
       => LET id == IdOfSegment(publish.topic[4])
              field == BatteryFieldOf(SubSeq(publish.topic, 5, Len(publish.topic)))
              old == RecordOr(data.batteries_dc, id, BatteryDCDefault)
          IN /\ MapPut(data.batteries_dc, data'.batteries_dc, id,
                       [old EXCEPT ![field] = Some(publish.payload.number)])
             /\ data'.pv_inverters = data.pv_inverters
             /\ data'.ac_input = data.ac_input
             /\ data'.ac_output = data.ac_output
             /\ data'.ess = data.ess]_vars

\* a Dc/0/Power frame for battery 512 was applied after its Soc was known
C1_Witness ==
    /\ Handled
    /\ publish = Frame(<<"N", serial_number, "battery", "512", "Dc", "0", "Power">>,
                       Num(100))
    /\ 512 \in DOMAIN data.batteries_dc
    /\ data.batteries_dc[512] =
           [BatteryDCDefault EXCEPT !.dc_power = Some(100), !.soc = Some(50)]

(* C2: when the event loop applies a frame whose topic does not start with  *)
(* N/S/, whatever its payload, the device state is unchanged.               *)
C2_PrefixFiltering ==
    [][(HandleStep /\ publish.topic \in ForeignTopics(serial_number))
       => data' = data]_vars

\* a frame of another device's serial was applied to a store that holds a value
C2_Witness ==
    /\ Handled
    /\ publish = Frame(<<"N", OtherSerial(serial_number), "battery", "512", "Soc">>,
                       Num(100))
    /\ data = [VictronDataDefault EXCEPT !.ac_input.voltage = Some(50)]

(* C3: the shutdown signal is level-triggered: once shutdown() was called,  *)
(* a task that returns from a frame handler, from the error backoff or from *)
(* a keepalive publish to its select checkpoint finds the signal set.       *)
C3_LateWaiterObserves ==
    [][n_shutdowns > 0
       => /\ (ev_pc \in {"handling", "backoff"} /\ ev_pc' = "select") => ev_notified'
          /\ (ka_pc = "publishing" /\ ka_pc' = "select") => ka_notified']_vars

(* C4: after a single shutdown(), once the event loop and the keepalive     *)
(* task have each passed their select checkpoint, the event loop takes no   *)
(* further transport event and the keepalive task takes no further tick.    *)
C4_NothingAfterShutdown ==
    [][(n_shutdowns = 1 /\ ev_polled /\ ka_polled)
       => (n_events' = n_events /\ n_ticks' = n_ticks)]_vars

----------------------------------------------------------------------------
(* Summaries *)

RECURSIVE SumOver(_, _, _)
SumOver(map, field, ids) ==
    IF ids = {} THEN 0
    ELSE LET id == CHOOSE x \in ids : TRUE
         IN map[id][field][1] + SumOver(map, field, ids \ {id})

\* Unset when no record has the field, else the sum of the values that are set
TotalOf(map, field) ==
    LET set == {id \in DOMAIN map : map[id][field] # None}
    IN IF set = {} THEN None ELSE Some(SumOver(map, field, set))

SummaryTotalsRight(d) ==
    /\ get_pv_inverter_summary(d).total_power = TotalOf(d.pv_inverters, "power")
    /\ get_battery_summary(d).total_power = TotalOf(d.batteries_dc, "dc_power")

(* C5: in every state the inverter summary's total_power is Unset when no   *)
(* inverter has a power and else the sum of the powers that are set, the    *)
(* battery summary's total_power is the same over dc_power, and a call of a *)
(* summary accessor returns the totals of the map as it is at the call.     *)
C5_SummaryTotals ==
    [][/\ SummaryTotalsRight(data')
       /\ (ret' # ret /\ ret'.op = "get_pv_inverter_summary")
              => ret'.value.total_power = TotalOf(data.pv_inverters, "power")
       /\ (ret' # ret /\ ret'.op = "get_battery_summary")
              => ret'.value.total_power = TotalOf(data.batteries_dc, "dc_power")]_vars

\* inverters {20: 100, 21: Unset, 22: 50} and a summary call that returned 150
C5_Witness ==
    /\ DOMAIN data.pv_inverters = {20, 21, 22}
    /\ data.pv_inverters[20].power = Some(100)
    /\ data.pv_inverters[21].power = None
    /\ data.pv_inverters[22].power = Some(50)
    /\ ret = [op |-> "get_pv_inverter_summary", value |-> [total_power |-> Some(150)]]

----------------------------------------------------------------------------
(* Frame effects *)

PvInverterFieldOf(rest) ==
    CASE rest = <<"Ac", "Power">> -> "power"
      [] rest = <<"Ac", "MaxPower">> -> "max_power"
      [] rest = <<"Ac", "Energy", "Forward">> -> "total_energy"

\* `new` is `old` with at most the named field changed
OnlyFieldChanged(old, new, field) ==
    /\ DOMAIN new = DOMAIN old
    /\ \A g \in DOMAIN old \ {field} : new[g] = old[g]

\* every field of the record except the named one is Unset
OthersUnset(rec, field) == \A g \in DOMAIN rec \ {field} : rec[g] = None

FirstSight(old, new, id, field, default) ==
    /\ id \in DOMAIN new
    /\ DOMAIN new[id] = DOMAIN default
    /\ IF id \in DOMAIN old
       THEN OnlyFieldChanged(old[id], new[id], field)
       ELSE OthersUnset(new[id], field)

(* C6: a battery or inverter frame with a field pattern, whatever its value,*)
(* for an id that is no key yet leaves a record for the id in which every   *)
(* field other than the addressed one is Unset; for an id that is a key it  *)
(* changes no other field of the record.                                    *)
C6_FirstSightCreation ==
    [][(HandleStep /\ publish.payload.utf8)
       => /\ IsEntityTopic(publish.topic, serial_number, "battery", BatteryRests)
                => FirstSight(data.batteries_dc, data'.batteries_dc,
                       IdOfSegment(publish.topic[4]),
                       BatteryFieldOf(SubSeq(publish.topic, 5, Len(publish.topic))),
                       BatteryDCDefault)
          /\ IsEntityTopic(publish.topic, serial_number, "pvinverter", PvInverterRests)
                => FirstSight(data.pv_inverters, data'.pv_inverters,
                       IdOfSegment(publish.topic[4]),
                       PvInverterFieldOf(SubSeq(publish.topic, 5, Len(publish.topic))),
                       PvInverterDefault)]_vars

\* inverter 513 was created by its first frame while battery 512 was known
C6_Witness ==
    /\ Handled
    /\ publish = Frame(<<"N", serial_number, "pvinverter", "513", "Ac", "MaxPower">>,
                       Num(50))
    /\ DOMAIN data.pv_inverters = {513}
    /\ data.pv_inverters[513] = [PvInverterDefault EXCEPT !.max_power = Some(50)]
    /\ 512 \in DOMAIN data.batteries_dc

\* the entity and the field each fixed topic stands for
FixedRoutes ==
    {<<(<<"vebus", "275", "Ac", "ActiveIn", "L1", "V">>), "ac_input", "voltage">>,
     <<(<<"vebus", "275", "Ac", "ActiveIn", "L1", "P">>), "ac_input", "power">>,
     <<(<<"vebus", "275", "Ac", "ActiveIn", "L1", "F">>), "ac_input", "frequency">>,
     <<(<<"vebus", "275", "Ac", "Out", "L1", "V">>), "ac_output", "voltage">>,
     <<(<<"vebus", "275", "Ac", "Out", "L1", "P">>), "ac_output", "power">>,
     <<(<<"vebus", "275", "Ac", "Out", "L1", "F">>), "ac_output", "frequency">>,
     <<(<<"vebus", "275", "Hub4", "L1", "AcPowerSetpoint">>), "ess", "grid_setpoint">>}

(* C7: a frame of one of the seven fixed topics with payload {"value": v}   *)
(* sets the one field of ac_input, ac_output or ess the topic stands for to *)
(* v and changes nothing else of the device state.                          *)
C7_FixedEntityRouting ==
    [][(HandleStep /\ IsNumber(publish.payload))
       => \A r \in FixedRoutes :
            publish.topic = <<"N", serial_number>> \o r[1]
            => data' = [data EXCEPT ![r[2]][r[3]] = Some(publish.payload.number)]]_vars

\* only an ActiveIn/L1/V frame was applied: voltage is set, power and frequency are not
C7_Witness ==
    /\ Handled
    /\ n_events = 1
    /\ publish = Frame(<<"N", serial_number, "vebus", "275", "Ac", "ActiveIn", "L1", "V">>,
                       Num(100))
    /\ data = [VictronDataDefault EXCEPT !.ac_input.voltage = Some(100)]

(* C8: applying the frame the event loop has just applied once more yields  *)
(* the device state it has already produced.                                *)
C8_Idempotence ==
    [][HandleStep
       => handle_publish(data', serial_number, publish.topic, publish.payload)
              = data']_vars

\* a frame with an effect was applied to a store that already held a value
C8_Witness ==
    /\ Handled
    /\ n_events = 2
    /\ publish = Frame(<<"N", serial_number, "pvinverter", "512", "Ac", "Energy",
                         "Forward">>, Num(50))
    /\ 512 \in DOMAIN data.pv_inverters
    /\ data.pv_inverters[512].total_energy = Some(50)
    /\ data.pv_inverters[512].power = Some(100)

(* C9: a frame N/S/<suffix> whose suffix matches none of the five routes,   *)
(* whatever its payload, leaves the device state unchanged.                 *)
C9_UnmatchedRoute ==
    [][(/\ HandleStep
        /\ publish.topic \in {<<"N", serial_number>> \o s : s \in RouteMissSuffixes})
       => data' = data]_vars

\* N/S/some/unknown/path was applied to a store that holds a battery
C9_Witness ==
    /\ Handled
    /\ publish = Frame(<<"N", serial_number, "some", "unknown", "path">>, Num(100))
    /\ DOMAIN data.batteries_dc = {513}
    /\ data.batteries_dc[513].soh = Some(50)

(* C10: when some battery has its dc_voltage (temperature) set, the battery *)
(* summary's avg_voltage (avg_temperature) is set, to the average of the    *)
(* values that are set.                                                     *)
C10_BatteryAverages ==
    LET summary == get_battery_summary(data)
        map == data.batteries_dc
        Avg(field, avg) ==
            LET set == {id \in DOMAIN map : map[id][field] # None}
            IN set # {} => /\ avg # None
                           /\ avg[1] * Cardinality(set) = SumOver(map, field, set)
    IN /\ Avg("dc_voltage", summary.avg_voltage)
       /\ Avg("temperature", summary.avg_temperature)

----------------------------------------------------------------------------
(* Outbound publishes and commands *)

(* C11: every outbound publish of the service goes to a topic that carries  *)
(* the service's own serial: R/S/keepalive for the keepalive and W/S/...    *)
(* for ess_set_setpoint, set_ac_power_setpoint and send_mqtt.               *)
C11_OutboundTopicsCarrySerial ==
    sent # NoSent
    => /\ Len(sent.topic) >= 3
       /\ sent.topic[1] \in {"R", "W"}
       /\ sent.topic[2] = serial_number
       /\ sent.topic[1] = "R" => sent.topic = <<"R", serial_number, "keepalive">>

(* C12: a command operation (ess_set_setpoint, set_ac_power_setpoint)       *)
(* returns an error when the transport rejects the publish and reports      *)
(* success when the transport accepts it, and changes no device state.      *)
C12_CommandFailureSurfaced ==
    [][/\ cmd_ret' # cmd_ret => data' = data
       /\ cmd_ret'.op \in {"ess_set_setpoint", "set_ac_power_setpoint"}
              => /\ ~cmd_ret'.accepted => cmd_ret'.result = "Err"
                 /\ cmd_ret'.accepted => cmd_ret'.result # "Err"]_vars

----------------------------------------------------------------------------
(* Map keys and field values over time *)

\* the device id an id segment stands for: a malformed segment counts as 0
DenotedId(seg) ==
    IF seg \in DecimalIds THEN IdOfSegment(seg)
    ELSE IF seg = "+20" THEN 20
    ELSE 0

\* the ids of the entity to which this step's frame is routed: the frame is
\* decoded text, carries the prefix N/S/ and goes on with <entity>/<id>
RoutedIds(entity) ==
    IF /\ HandleStep
       /\ publish.payload.utf8
       /\ Len(publish.topic) >= 4
       /\ SubSeq(publish.topic, 1, 3) = <<"N", serial_number, entity>>
    THEN {DenotedId(publish.topic[4])}
    ELSE {}

(* C13: in every step the key set of the battery map (of the inverter map)  *)
(* keeps all its keys and grows by exactly the id of a frame routed to      *)
(* battery/<id> (pvinverter/<id>) in that step, a malformed id counting as  *)
(* 0; so a key exists if and only if such a frame was processed.            *)
C13_KeysOnlyGrowByFrames ==
    [][/\ DOMAIN data.batteries_dc \subseteq DOMAIN data'.batteries_dc
       /\ DOMAIN data.pv_inverters \subseteq DOMAIN data'.pv_inverters
       /\ DOMAIN data'.batteries_dc
              = DOMAIN data.batteries_dc \cup RoutedIds("battery")
       /\ DOMAIN data'.pv_inverters
              = DOMAIN data.pv_inverters \cup RoutedIds("pvinverter")]_vars

\* battery 513 came from a frame with no field, key 0 from the id "abc"
C13_Witness ==
    /\ Handled
    /\ publish = Frame(<<"N", serial_number, "battery", "abc", "Soc">>, Num(50))
    /\ DOMAIN data.batteries_dc = {0, 513}
    /\ data.batteries_dc[513] = BatteryDCDefault
    /\ DOMAIN data.pv_inverters = {}

\* no field that holds a value in `old` is Unset in `new`
StaysSet(old, new) == \A f \in DOMAIN old : old[f] # None => new[f] # None

(* C14: in every step, a field of ac_input, ac_output, ess, a battery or an *)
(* inverter that holds a value still holds a value afterwards.              *)
C14_FieldNeverUnsetAgain ==
    [][/\ StaysSet(data.ac_input, data'.ac_input)
       /\ StaysSet(data.ac_output, data'.ac_output)
       /\ StaysSet(data.ess, data'.ess)
       /\ \A id \in DOMAIN data.batteries_dc \cap DOMAIN data'.batteries_dc :
              StaysSet(data.batteries_dc[id], data'.batteries_dc[id])
       /\ \A id \in DOMAIN data.pv_inverters \cap DOMAIN data'.pv_inverters :
              StaysSet(data.pv_inverters[id], data'.pv_inverters[id])]_vars

----------------------------------------------------------------------------
(* Read accessors *)

\* the (id, record) pairs of a returned list are those of the map, each once
PairsOfMap(list, map) ==
    /\ Len(list) = Cardinality(DOMAIN map)
    /\ {list[i] : i \in 1..Len(list)} = {<<id, map[id]>> : id \in DOMAIN map}

\* the returned value is the content of store d
IsSnapshot(r, d) ==
    CASE r.op = "get_ac_input" -> r.value = d.ac_input
      [] r.op = "get_ac_output" -> r.value = d.ac_output
      [] r.op = "get_ess" -> r.value = d.ess
      [] r.op = "get_batteries_dc" -> PairsOfMap(r.value, d.batteries_dc)
      [] r.op = "get_pv_inverters" -> PairsOfMap(r.value, d.pv_inverters)
      [] r.op = "get_battery_summary" ->
             r.value.total_power = TotalOf(d.batteries_dc, "dc_power")
      [] r.op = "get_pv_inverter_summary" ->
             r.value.total_power = TotalOf(d.pv_inverters, "power")

\* an accessor has returned a value other than the one held before
Returned == ret'.op # ret.op \/ ret'.value # ret.value

(* C15: the value a read accessor returns is the content of the store at    *)
(* the point of the call, and a step that changes the store leaves the      *)
(* value already returned as it is.                                          *)
C15_AccessorsReturnSnapshots ==
    [][/\ Returned => IsSnapshot(ret', data) /\ data' = data
       /\ data' # data => ~Returned]_vars

\* get_ac_input returned voltage 100 and a later frame has unset the voltage
C15_Witness ==
    /\ ret = [op |-> "get_ac_input",
              value |-> [AcSpecDefault EXCEPT !.voltage = Some(100)]]
    /\ Handled
    /\ data.ac_input.voltage = None
    /\ DOMAIN data.batteries_dc = {512}

----------------------------------------------------------------------------
(* shutdown() *)

ShutdownStep == n_shutdowns' # n_shutdowns

BothStopped == ev_pc = "stopped" /\ ka_pc = "stopped"

(* C16: shutdown() can be called in every state (it never waits for a task), *)
(* a call changes no field of the device state and moves neither task, and   *)
(* a call made after both tasks have stopped changes nothing but the count   *)
(* of calls.                                                                 *)
C16_ShutdownAnyTime ==
    [][/\ n_shutdowns < MaxShutdowns => ENABLED shutdown
       /\ ShutdownStep
              => /\ data' = data
                 /\ ev_pc' = ev_pc /\ ka_pc' = ka_pc
                 /\ BothStopped => UNCHANGED <<ev_notified, ka_notified>>]_vars

\* both tasks have stopped after a frame was applied, and shutdown() was
\* called as often as the bound allows
C16_Witness ==
    /\ BothStopped
    /\ n_shutdowns = MaxShutdowns
    /\ ~ev_notified /\ ~ka_notified
    /\ data.ac_input.voltage = Some(100)

(* C17: a frame whose transport event the loop consumes after shutdown()    *)
(* has returned is never written to the store.                              *)
C17_NoWriteAfterShutdown ==
    [][(HandleStep /\ ev_polled) => data' = data]_vars

----------------------------------------------------------------------------
(* Decode failures and misses *)

\* the payload is text, but not JSON with a number named value
IsUndecodable(payload) == payload.utf8 /\ ~IsNumber(payload)

(* C18: a frame whose payload is valid UTF-8 but carries no number (not     *)
(* JSON, no field value, value not a number) is applied like any other:     *)
(* the field its topic stands for is Unset afterwards, whatever it held,    *)
(* a battery or inverter record is created when the id was no key, and      *)
(* nothing else of the device state changes.                                *)
C18_DecodeFailureAssignsUnset ==
    [][(HandleStep /\ IsUndecodable(publish.payload))
       => /\ \A r \in FixedRoutes :
                publish.topic = <<"N", serial_number>> \o r[1]
                => data' = [data EXCEPT ![r[2]][r[3]] = None]
          /\ IsEntityTopic(publish.topic, serial_number, "battery", BatteryRests)
                => LET id == IdOfSegment(publish.topic[4])
                       field == BatteryFieldOf(SubSeq(publish.topic, 5, Len(publish.topic)))
                       old == RecordOr(data.batteries_dc, id, BatteryDCDefault)
                   IN /\ MapPut(data.batteries_dc, data'.batteries_dc, id,
                                [old EXCEPT ![field] = None])
                      /\ data' = [data EXCEPT !.batteries_dc = data'.batteries_dc]
          /\ IsEntityTopic(publish.topic, serial_number, "pvinverter", PvInverterRests)
                => LET id == IdOfSegment(publish.topic[4])
                       field == PvInverterFieldOf(SubSeq(publish.topic, 5, Len(publish.topic)))
                       old == RecordOr(data.pv_inverters, id, PvInverterDefault)
                   IN /\ MapPut(data.pv_inverters, data'.pv_inverters, id,
                                [old EXCEPT ![field] = None])
                      /\ data' = [data EXCEPT !.pv_inverters = data'.pv_inverters]]_vars

\* the second frame, text that is not JSON, was applied to the Soc of battery
\* 512, which the first frame had created: the record is all Unset
C18_Witness ==
    /\ Handled
    /\ n_events = 2
    /\ publish = Frame(<<"N", serial_number, "battery", "512", "Soc">>, BadJson)
    /\ data = [VictronDataDefault EXCEPT !.batteries_dc = (512 :> BatteryDCDefault)]

(* C19: a frame whose payload is not valid UTF-8, whatever its topic,       *)
(* leaves the device state unchanged, key sets included, and the event loop *)
(* goes back to its select.                                                 *)
C19_InvalidUtf8Dropped ==
    [][(ev_pc = "handling" /\ ev_pc' # ev_pc /\ ~publish.payload.utf8)
       => data' = data /\ ev_pc' = "select"]_vars

\* a frame for the unseen battery 513 with invalid UTF-8 was applied after a
\* good frame: no key 513, and the loop is back at its select
C19_Witness ==
    /\ Handled
    /\ n_events = 2
    /\ publish = Frame(<<"N", serial_number, "battery", "513", "Soc">>, BadUtf8)
    /\ data = [VictronDataDefault EXCEPT
                  !.batteries_dc = (512 :> [BatteryDCDefault EXCEPT !.soc = Some(100)])]

\* the frame being applied is routed to an entity and its rest matches no
\* pattern of the entity
EntityMiss ==
    /\ HandleStep
    /\ publish.topic \in {<<"N", serial_number>> \o s : s \in EntityMissSuffixes}

\* the key of a battery or inverter map the frame being applied addresses
AddressedIds(entity) ==
    IF publish.payload.utf8 /\ publish.topic[3] = entity
    THEN {DenotedId(publish.topic[4])} ELSE {}

\* `new` is `old` with at most the keys `ids` added, each with the record default
GrownByDefaults(old, new, ids, default) ==
    /\ DOMAIN new = DOMAIN old \cup ids
    /\ \A id \in DOMAIN old : new[id] = old[id]
    /\ \A id \in DOMAIN new \ DOMAIN old : new[id] = default

(* C20 as stated: a frame routed to an entity whose rest matches no pattern *)
(* of the entity leaves the whole device state unchanged, key sets included.*)
C20_UnmatchedSuffixPureDrop ==
    [][EntityMiss => data' = data]_vars

(* C20: a frame routed to an entity whose rest matches no pattern of the    *)
(* entity changes no field of ac_input, ac_output, ess or of any record     *)
(* that exists; a battery or inverter frame with a valid UTF-8 payload for  *)
(* an id that is no key adds the key with an all-Unset record, and the key  *)
(* sets do not change otherwise.                                            *)
C20_UnmatchedSuffixKeepsFields ==
    [][EntityMiss
       => /\ data'.ac_input = data.ac_input
          /\ data'.ac_output = data.ac_output
          /\ data'.ess = data.ess
          /\ GrownByDefaults(data.batteries_dc, data'.batteries_dc,
                             AddressedIds("battery"), BatteryDCDefault)
          /\ GrownByDefaults(data.pv_inverters, data'.pv_inverters,
                             AddressedIds("pvinverter"), PvInverterDefault)]_vars

\* N/S/battery/513 (no rest) was applied after a setpoint frame: battery 513
\* is a key with an all-Unset record, the setpoint is as it was
C20_Witness ==
    /\ Handled
    /\ n_events = 2
    /\ publish = Frame(<<"N", serial_number, "battery", "513">>, Num(100))
    /\ data = [VictronDataDefault EXCEPT
                  !.ess.grid_setpoint = Some(50),
                  !.batteries_dc = (513 :> BatteryDCDefault)]

----------------------------------------------------------------------------
(* Ordering *)

\* where a frame is routed to: <<entity, id, field>>, or <<>> for a frame
\* that is routed to no field
AddressOf(frame, sn) ==
    LET topic == frame.topic
        fixed == {r \in FixedRoutes : topic = <<"N", sn>> \o r[1]}
    IN IF ~frame.payload.utf8 THEN <<>>
       ELSE IF fixed # {}
       THEN LET r == CHOOSE x \in fixed : TRUE IN <<r[2], 0, r[3]>>
       ELSE IF IsEntityTopic(topic, sn, "battery", BatteryRests)
       THEN <<"batteries_dc", IdOfSegment(topic[4]),
              BatteryFieldOf(SubSeq(topic, 5, Len(topic)))>>
       ELSE IF IsEntityTopic(topic, sn, "pvinverter", PvInverterRests)
       THEN <<"pv_inverters", IdOfSegment(topic[4]),
              PvInverterFieldOf(SubSeq(topic, 5, Len(topic)))>>
       ELSE <<>>

\* the value a frame carries
ValueOf(frame) ==
    IF IsNumber(frame.payload) THEN Some(frame.payload.number) ELSE None

\* the value of the last frame of seq routed to address a, Unset if there is none
LastRouted(seq, a, sn) ==
    LET at == {i \in 1..Len(seq) : AddressOf(seq[i], sn) = a}
    IN IF at = {} THEN None
       ELSE ValueOf(seq[CHOOSE i \in at : \A j \in at : j <= i])

\* what the store holds at address a; a record that does not exist holds nothing
HeldAt(d, a) ==
    IF a[1] \in {"batteries_dc", "pv_inverters"}
    THEN IF a[2] \in DOMAIN d[a[1]] THEN d[a[1]][a[2]][a[3]] ELSE None
    ELSE d[a[1]][a[3]]

Addresses ==
    {<<r[2], 0, r[3]>> : r \in FixedRoutes}
    \cup {<<"batteries_dc", IdOfSegment(seg), BatteryFieldOf(rest)>> :
             seg \in DecimalIds, rest \in BatteryRests}
    \cup {<<"pv_inverters", IdOfSegment(seg), PvInverterFieldOf(rest)>> :
             seg \in DecimalIds, rest \in PvInverterRests}

\* the delivered packets the event loop has applied to the store
AppliedFrames ==
    SubSeq(stream, 1, IF ev_pc = "handling" THEN n_events - 1 ELSE n_events)

(* C21: the event loop consumes the delivered packets one at a time in the  *)
(* order of delivery, and in every state each field of the store holds the  *)
(* value of the last applied frame that was routed to it, or is Unset when  *)
(* no applied frame was.                                                    *)
C21_FramesAppliedInOrder ==
    /\ n_events <= Len(stream)
    /\ ev_pc = "handling" => publish = stream[n_events]
    /\ \A a \in Addresses :
          HeldAt(data, a) = LastRouted(AppliedFrames, a, serial_number)

\* voltage 100, then the battery's Soc, then voltage 50 were delivered and
\* applied: the voltage is 50, the Soc is 87
C21_Witness ==
    /\ ev_pc = "select"
    /\ n_events = 3
    /\ stream = <<Frame(<<"N", serial_number, "vebus", "275", "Ac", "ActiveIn", "L1", "V">>, Num(100)),
                  Frame(<<"N", serial_number, "battery", "512", "Soc">>, Num(87)),
                  Frame(<<"N", serial_number, "vebus", "275", "Ac", "ActiveIn", "L1", "V">>, Num(50))>>
    /\ data.ac_input.voltage = Some(50)
    /\ data.batteries_dc[512].soc = Some(87)

----------------------------------------------------------------------------
(* Transport errors *)

(* C22: a transport error sends the event loop into its backoff, from which *)
(* it can only return to its select; the loop stops only on a shutdown      *)
(* signal it was woken by; at its select it can take a further publish      *)
(* packet however many errors it has gone through, and the packet it took   *)
(* is written to the field it is routed to.                                 *)
C22_TransportErrorNotFatal ==
    [][/\ n_errors' # n_errors => ev_pc = "select" /\ ev_pc' = "backoff"
       /\ ev_pc = "backoff"
              => ev_pc' \in {"backoff", "select"} /\ ENABLED ev_backoff_done
       /\ (ev_pc # "stopped" /\ ev_pc' = "stopped")
              => ev_notified /\ n_shutdowns > 0
       /\ (ev_pc = "select" /\ n_events < MaxEvents)
              => ENABLED ev_poll_publish(FeedFrames(serial_number), MaxEvents)
       /\ ev_pc = "handling" => ENABLED ev_handle_publish
       /\ HandleStep
              => LET a == AddressOf(publish, serial_number)
                 IN a # <<>> => HeldAt(data', a) = ValueOf(publish)]_vars

\* after two transport errors, each followed by its backoff, and no shutdown()
\* the loop has taken the Soc frame of battery 512 as its third event
C22_Witness ==
    /\ ev_pc = "handling"
    /\ n_shutdowns = 0
    /\ n_errors = 2
    /\ n_events = 3
    /\ publish = Frame(<<"N", serial_number, "battery", "512", "Soc">>, Num(87))

----------------------------------------------------------------------------
(* Keepalive *)

(* C23: with no shutdown, the keepalive task never stops; every tick hands  *)
(* a publish to R/S/keepalive to the client; whatever the publish returns,  *)
(* the task goes back to its select, where the next tick can be taken in    *)
(* whatever position the event loop is; and every tick within the bound is  *)
(* eventually taken and its publish eventually returns.                     *)
C23_KeepalivePersists ==
    /\ [][/\ ka_pc' # "stopped"
          /\ n_ticks' # n_ticks
                 => /\ ka_pc' = "publishing"
                    /\ sent' = Outbound(<<"R", serial_number, "keepalive">>, EmptyText)
          /\ (ka_pc = "publishing" /\ ka_pc' # ka_pc) => ka_pc' = "select"
          /\ (ka_pc = "select" /\ n_ticks < MaxTicks) => ENABLED ka_tick
          /\ ka_pc = "publishing" => ENABLED ka_publish_done]_vars
    /\ <>(n_ticks = MaxTicks /\ ka_pc = "select")
    /\ (ka_result = "Err" /\ n_ticks < MaxTicks) ~> (ka_pc = "publishing")

\* the first keepalive publish failed and the second tick's publish is under
\* way while the event loop sits in its error backoff
C23_Witness ==
    /\ ka_result = "Err"
    /\ n_ticks = 2
    /\ ka_pc = "publishing"
    /\ ev_pc = "backoff"
    /\ sent = Outbound(<<"R", serial_number, "keepalive">>, EmptyText)

----------------------------------------------------------------------------
(* The lock *)

\* the callers that hold a read guard
ReadGuards == {r \in Readers : rd_pc[r] = "reading"}

\* the event loop holds the write guard
WriteGuard == ev_pc \in {"writing", "entered"}

\* nobody holds the lock, or readers only, or the one writer only
Exclusion == WriteGuard => ReadGuards = {}

\* every record of a returned list has a field set
AllFilled(list, default) == \A i \in 1..Len(list) : list[i][2] # default

(* C24: in every state the write guard and a read guard are never held      *)
(* together; an accessor returns while no write guard is held, its value is *)
(* the content of the store between two frames, and with frames that each   *)
(* set a field it never returns a record that was created but not filled.   *)
C24_ReaderWriterExclusion ==
    [][/\ Exclusion /\ Exclusion'
       /\ Returned
              => /\ ~WriteGuard
                 /\ IsSnapshot(ret', data)
                 /\ ret'.op = "get_batteries_dc"
                        => AllFilled(ret'.value, BatteryDCDefault)
                 /\ ret'.op = "get_pv_inverters"
                        => AllFilled(ret'.value, PvInverterDefault)]_vars

\* a caller holds a read guard while the event loop, with its frame for the
\* unseen battery 513 decoded, queues for the write guard behind it, and a
\* second caller queues behind the event loop
C24_Witness ==
    /\ rd_pc[1] = "reading"
    /\ ev_pc = "locking"
    /\ rd_pc[2] = "waiting"
    /\ publish = Frame(<<"N", serial_number, "battery", "513", "Dc", "0", "Power">>, Num(50))
    /\ permits = 0
    /\ Len(waiters) = 2

----------------------------------------------------------------------------
(* Single writer *)

(* C25: a step that changes the device state is the step in which the event *)
(* loop applies the publish packet it took; it is no transport event being  *)
(* taken, no transport error, no keepalive tick or publish, no accessor     *)
(* return, no command and no shutdown() call.                               *)
C25_SingleWriter ==
    [][data' # data
       => /\ HandleStep
          /\ publish \in ServiceFrames(serial_number)
          /\ UNCHANGED <<n_events, n_errors, n_ticks, n_shutdowns, ka_pc, sent, cmd_ret>>
          /\ ~Returned]_vars

\* the Soc frame was applied, a keepalive tick was taken, a summary accessor
\* and ess_set_setpoint were called: the store holds the Soc and nothing else
C25_Witness ==
    /\ data = [VictronDataDefault EXCEPT
                  !.batteries_dc = (512 :> [BatteryDCDefault EXCEPT !.soc = Some(87)])]
    /\ n_events = 1
    /\ n_ticks = 1
    /\ ret.op = "get_battery_summary"
    /\ cmd_ret.op = "ess_set_setpoint"
    /\ sent.topic = ess_set_setpoint_topic(serial_number)

----------------------------------------------------------------------------
(* Accessors return *)

\* somebody holds a guard
GuardHeld == WriteGuard \/ ReadGuards # {}

\* every variable but ret, whose values of different accessors do not compare;
\* a step that changes ret changes rd_pc or leaves every other variable as it is
all_but_ret ==
    <<serial_number, data, ev_vars, ka_vars, n_shutdowns, sent, cmd_ret, stream,
      lock_vars>>

(* C26: an accessor can be called in every state by a caller that is not in *)
(* one; a task waits for the lock only while another holds a guard; every   *)
(* return gives the content of the store; and every caller that is in an    *)
(* accessor, waiting or holding the read guard, eventually has returned,    *)
(* also before the first frame and after shutdown().                        *)
C26_AccessorsReturn ==
    /\ [][/\ \A r \in Readers : rd_pc[r] = "idle" => ENABLED rd_call(r)
          /\ waiters # <<>> => GuardHeld
          /\ ev_pc = "locking" => ReadGuards # {}
          /\ Returned => IsSnapshot(ret', data)]_all_but_ret
    /\ \A r \in Readers : (rd_pc[r] # "idle") ~> (rd_pc[r] = "idle")

\* after shutdown() stopped the event loop, with the store still empty, a
\* caller has got the summary of no battery
C26_Witness ==
    /\ ev_pc = "stopped"
    /\ n_shutdowns = 1
    /\ n_events = 0
    /\ data = VictronDataDefault
    /\ ret = [op |-> "get_battery_summary", value |-> get_battery_summary(VictronDataDefault)]
    /\ rd_pc[1] = "idle"

----------------------------------------------------------------------------
(* Malformed device ids *)

\* id segments that are no decimal number in 0..65535
MalformedIds == {"abc", "", "-1", "65556"}

\* the record a battery or inverter frame goes to: <<entity, id, field>>, with
\* a malformed id segment standing for device 0
IdAddressOf(frame, sn) ==
    LET topic == frame.topic
        rest == SubSeq(topic, 5, Len(topic))
    IN IF SubSeq(topic, 1, 3) = <<"N", sn, "battery">> /\ rest \in BatteryRests
       THEN <<"batteries_dc", DenotedId(topic[4]), BatteryFieldOf(rest)>>
       ELSE IF SubSeq(topic, 1, 3) = <<"N", sn, "pvinverter">> /\ rest \in PvInverterRests
       THEN <<"pv_inverters", DenotedId(topic[4]), PvInverterFieldOf(rest)>>
       ELSE <<>>

\* the value of the last frame of seq that goes to address a, Unset if none does
LastToId(seq, a, sn) ==
    LET at == {i \in 1..Len(seq) : IdAddressOf(seq[i], sn) = a}
    IN IF at = {} THEN None
       ELSE ValueOf(seq[CHOOSE i \in at : \A j \in at : j <= i])

\* the device ids the frames of seq go to in the map `entity`
IdsOf(seq, entity, sn) ==
    {IdAddressOf(seq[i], sn)[2] :
        i \in {j \in 1..Len(seq) : /\ IdAddressOf(seq[j], sn) # <<>>
                                    /\ IdAddressOf(seq[j], sn)[1] = entity}}

IdAddresses ==
    {<<"batteries_dc", id, BatteryFieldOf(rest)>> :
         id \in {0, 512}, rest \in BatteryRests}
    \cup {<<"pv_inverters", id, PvInverterFieldOf(rest)>> :
             id \in {0, 512}, rest \in PvInverterRests}

(* C27: a battery or inverter frame with a malformed id segment is applied  *)
(* to the record with id 0: in every state the keys of each map are the ids *)
(* of the applied frames with every malformed id counted as 0, and each     *)
(* field of record 0 holds the value of the last applied frame that went to *)
(* it under any malformed id or under the id 0.                             *)
C27_MalformedIdIsZero ==
    /\ \A i \in 1..Len(AppliedFrames) :
          LET a == IdAddressOf(AppliedFrames[i], serial_number)
          IN (a # <<>> /\ AppliedFrames[i].topic[4] \in MalformedIds)
                 => a[2] = 0 /\ 0 \in DOMAIN data[a[1]]
    /\ DOMAIN data.batteries_dc = IdsOf(AppliedFrames, "batteries_dc", serial_number)
    /\ DOMAIN data.pv_inverters = IdsOf(AppliedFrames, "pv_inverters", serial_number)
    /\ \A a \in IdAddresses :
          HeldAt(data, a) = LastToId(AppliedFrames, a, serial_number)

\* frames for the ids abc, -1 and 0 were applied: the one battery record 0
\* holds the Soc of the first, the power of the second and the Soh of the third
C27_Witness ==
    /\ ev_pc = "select"
    /\ n_events = 3
    /\ stream = <<Frame(<<"N", serial_number, "battery", "abc", "Soc">>, Num(87)),
                  Frame(<<"N", serial_number, "battery", "-1", "Dc", "0", "Power">>, Num(50)),
                  Frame(<<"N", serial_number, "battery", "0", "Soh">>, Num(100))>>
    /\ data = [VictronDataDefault EXCEPT
                  !.batteries_dc =
                      (0 :> [BatteryDCDefault EXCEPT !.soc = Some(87),
                                                     !.dc_power = Some(50),
                                                     !.soh = Some(100)])]

----------------------------------------------------------------------------
(* Construction *)

\* new has returned the error of the failed subscribe
ConstructionFailed == cmd_ret = CommandReturn("new", FALSE, "Err")

(* C28: after new has returned an error because the subscribe failed, the   *)
(* keepalive task of that attempt takes no step: no tick, no publish to     *)
(* R/S/keepalive.                                                           *)
C28_NoTaskAfterFailedNew ==
    [][ConstructionFailed
       => /\ n_ticks' = n_ticks
          /\ sent' = sent
          /\ ev_pc = "unspawned" /\ ev_pc' = ev_pc]_vars

====
